---- MODULE Spec2Model ----
(***************************************************************************)
(* Model of py-polars/polars/functions/col.py: the ColumnFactory object    *)
(* exported as col.  A caller holds one set of argument objects and      *)
(* invokes the factory on them, possibly several times.  The only object   *)
(* the factory can change is a one-shot iterator passed as name, which   *)
(* list(name) drains.                                                    *)
(***************************************************************************)
EXTENDS Naturals, Sequences, FiniteSets

VARIABLES entry, name, more_names, iter_rest, log

vars == <<entry, name, more_names, iter_rest, log>>

(* ------------------------------ bounds --------------------------------- *)
\* longest iterable passed as name
MaxLen == 2
\* most extra positional arguments after a scalar name
MaxExtra == 2
\* most extra positional arguments after an iterable name
MaxExtraIter == 1
\* most invocations on the same argument objects
MaxCalls == 2

(* ------------------------------ values --------------------------------- *)
\* A Python value: its runtime class, its payload, and (for a list or tuple)
\* its elements.  The elements of a one-shot iterator live in iter_rest.
Val(tag, v, items) == [tag |-> tag, v |-> v, items |-> items]

Str(s) == Val("str", s, <<>>)
DType(d) == Val("dtype", d, <<>>)
Int(n) == Val("int", n, <<>>)
None == Val("NoneType", "None", <<>>)
PyList(items) == Val("list", "", items)
PyTuple(items) == Val("tuple", "", items)
ListIterator == Val("list_iterator", "", <<>>)

NameStrings == {"foo", "*", "^ham.*$"}
Names == {Str(s) : s \in NameStrings}
DTypes == {DType("Int64"), DType("Float64")}
Others == {Int("42")}
Atoms == Names \cup DTypes \cup Others

SeqsUpTo(S, n) == UNION {[1..k -> S] : k \in 0..n}

(* ------------------------ runtime type inspection ---------------------- *)
isinstance_str(x) == x.tag = "str"

is_polars_dtype(x) == x.tag = "dtype"

\* a str is an Iterable too; the code tests for str first
isinstance_Iterable(x) == x.tag \in {"str", "list", "tuple", "list_iterator"}

\* type(x).__name__
type_name(x) == IF x.tag = "dtype" THEN "DataTypeClass" ELSE x.tag

\* list(name): the elements name yields now
list(x, rest) == IF x.tag = "list_iterator" THEN rest ELSE x.items

\* what is left in the one-shot iterator after list(name)
Drained(x, rest) == IF x.tag = "list_iterator" THEN <<>> ELSE rest

(* ------------------------- engine boundary ----------------------------- *)
plr_col(n) == [fn |-> "col", arg |-> n]

plr_cols(ns) == [fn |-> "cols", arg |-> PyList(ns)]

plr_dtype_cols(ds) == [fn |-> "dtype_cols", arg |-> PyList(ds)]

wrap_expr(pyexpr) == [pyexpr |-> pyexpr]

NoExpr == wrap_expr([fn |-> "", arg |-> None])

NoError == [type |-> "", expected |-> "", got |-> ""]

TypeError(expected, got) == [type |-> "TypeError", expected |-> expected, got |-> got]

\* return wrap_expr(plr.f(x)): one engine call, its wrapped result returned
Return(pyexpr) == [engine |-> <<pyexpr>>, ret |-> wrap_expr(pyexpr), raised |-> NoError]

\* raise TypeError(...): nothing constructed
Raise(err) == [engine |-> <<>>, ret |-> NoExpr, raised |-> err]

(* --------------------------- ColumnFactory ----------------------------- *)
ExpectedScalar == "str or DataType"

ExpectedIterable == "iterable of type str or DataType"

\* faulty variant: the extra arguments are put in front of name
CallMoreNames_ExtraFirst(n, more) ==
  IF isinstance_str(n) THEN Return(plr_cols(more \o <<n>>))
  ELSE IF is_polars_dtype(n) THEN Return(plr_dtype_cols(<<n>> \o more))
  ELSE Raise(TypeError(ExpectedScalar, type_name(n)))

\* faulty variant: the engine is called before name is checked
CallMoreNames_CallThenRaise(n, more) ==
  IF isinstance_str(n) THEN Return(plr_cols(<<n>> \o more))
  ELSE IF is_polars_dtype(n) THEN Return(plr_dtype_cols(<<n>> \o more))
  ELSE [engine |-> <<plr_cols(<<n>> \o more)>>,
        ret    |-> NoExpr,
        raised |-> TypeError(ExpectedScalar, type_name(n))]

\* __call__ with *more_names non-empty
CallMoreNames(n, more) ==
  IF isinstance_str(n)
    THEN LET names_str == <<n>> \o more IN Return(plr_cols(names_str))
  ELSE IF is_polars_dtype(n)
    THEN LET dtypes == <<n>> \o more IN Return(plr_dtype_cols(dtypes))
  ELSE Raise(TypeError(ExpectedScalar, type_name(n)))

\* faulty variant: an iterable of data types goes to the name constructor
CallIterable_TypesAsNames(names) ==
  IF names = <<>> THEN Return(plr_cols(names))
  ELSE IF isinstance_str(names[1]) \/ is_polars_dtype(names[1]) THEN Return(plr_cols(names))
  ELSE Raise(TypeError(ExpectedIterable, type_name(names[1])))

\* faulty variant: names[0] is inspected without the emptiness test
CallIterable_NoEmptyTest(names) ==
  IF names # <<>> /\ isinstance_str(names[1]) THEN Return(plr_cols(names))
  ELSE IF names # <<>> /\ is_polars_dtype(names[1]) THEN Return(plr_dtype_cols(names))
  ELSE Raise(TypeError(ExpectedIterable, IF names = <<>> THEN "IndexError" ELSE type_name(names[1])))

\* faulty variant: the error reports the last element instead of the first
CallIterable_ReportsLast(names) ==
  IF names = <<>> THEN Return(plr_cols(names))
  ELSE IF isinstance_str(names[1]) THEN Return(plr_cols(names))
  ELSE IF is_polars_dtype(names[1]) THEN Return(plr_dtype_cols(names))
  ELSE Raise(TypeError(ExpectedIterable, type_name(names[Len(names)])))

\* __call__ with an iterable name, after names = list(name)
CallIterable(names) ==
  IF names = <<>>
    THEN Return(plr_cols(names))
  ELSE LET item == names[1] IN
    IF isinstance_str(item) THEN Return(plr_cols(names))
    ELSE IF is_polars_dtype(item) THEN Return(plr_dtype_cols(names))
    ELSE Raise(TypeError(ExpectedIterable, type_name(item)))

\* faulty variant: an unsupported name falls back to a one-name selector
CallSingle_Fallback(n, rest) ==
  IF isinstance_str(n) THEN Return(plr_col(n))
  ELSE IF is_polars_dtype(n) THEN Return(plr_dtype_cols(<<n>>))
  ELSE IF isinstance_Iterable(n) THEN CallIterable(list(n, rest))
  ELSE Return(plr_cols(<<n>>))

\* __call__ without *more_names
CallSingle(n, rest) ==
  IF isinstance_str(n) THEN Return(plr_col(n))
  ELSE IF is_polars_dtype(n) THEN Return(plr_dtype_cols(<<n>>))
  ELSE IF isinstance_Iterable(n) THEN CallIterable(list(n, rest))
  ELSE Raise(TypeError(ExpectedScalar, type_name(n)))

\* whether __call__ reaches names = list(name)
Materialises(n, more) ==
  /\ more = <<>>
  /\ ~isinstance_str(n)
  /\ ~is_polars_dtype(n)
  /\ isinstance_Iterable(n)

\* faulty variant: the iterable rule is tried before the extra-arguments rule
ColumnFactoryCall_IterableFirst(n, more, rest) ==
  IF ~isinstance_str(n) /\ ~is_polars_dtype(n) /\ isinstance_Iterable(n)
    THEN [out |-> CallIterable(list(n, rest)), rest |-> Drained(n, rest)]
    ELSE [out |-> IF more # <<>> THEN CallMoreNames(n, more) ELSE CallSingle(n, rest),
          rest |-> rest]

\* ColumnFactory.__call__: the outcome, and the iterator's remaining elements
ColumnFactoryCall(n, more, rest) ==
  [out  |-> IF more # <<>> THEN CallMoreNames(n, more) ELSE CallSingle(n, rest),
   rest |-> IF Materialises(n, more) THEN Drained(n, rest) ELSE rest]

\* faulty variant: the attribute path uses the multi-name constructor
ColumnFactoryGetattr_Cols(n) == Return(plr_cols(<<n>>))

\* ColumnFactory.__getattr__
ColumnFactoryGetattr(n) == Return(plr_col(n))

(* --------------------------- state machine ----------------------------- *)
Iterables == {PyList(s) : s \in SeqsUpTo(Atoms, MaxLen)}
               \cup {PyTuple(s) : s \in SeqsUpTo(Atoms, MaxLen)}
               \cup {ListIterator}

\* col(x, y, ...): a scalar first argument, any extra positional arguments
InitScalar ==
  /\ entry = "call"
  /\ name \in Atoms
  /\ more_names \in SeqsUpTo(Atoms, MaxExtra)
  /\ iter_rest = <<>>

\* col(xs) and col(xs, y, ...): an iterable first argument
InitIterable ==
  /\ entry = "call"
  /\ name \in Iterables
  /\ more_names \in SeqsUpTo(Atoms, MaxExtraIter)
  /\ iter_rest \in IF name = ListIterator THEN SeqsUpTo(Atoms, MaxLen) ELSE {<<>>}

\* col.x
InitAttribute ==
  /\ entry = "getattr"
  /\ name \in Names
  /\ more_names = <<>>
  /\ iter_rest = <<>>

Init ==
  /\ log = <<>>
  /\ (InitScalar \/ InitIterable \/ InitAttribute)

\* one invocation col(name, *more_names); log keeps what the iterator held
\* before the call and the call's outcome
Call ==
  /\ entry = "call"
  /\ Len(log) < MaxCalls
  /\ LET r == ColumnFactoryCall(name, more_names, iter_rest) IN
       /\ log' = Append(log, [pre |-> iter_rest, out |-> r.out])
       /\ iter_rest' = r.rest
  /\ UNCHANGED <<entry, name, more_names>>

\* one attribute lookup col.<name>
GetAttr ==
  /\ entry = "getattr"
  /\ Len(log) < MaxCalls
  /\ log' = Append(log, [pre |-> iter_rest, out |-> ColumnFactoryGetattr(name)])
  /\ UNCHANGED <<entry, name, more_names, iter_rest>>

Next == Call \/ GetAttr

Spec == Init /\ [][Next]_vars

(* ------------------- the selector an outcome stands for ---------------- *)
ByName(elems) == [variant |-> "ByName", elems |-> elems]

ByType(elems) == [variant |-> "ByType", elems |-> elems]

NoSelector == [variant |-> "none", elems |-> <<>>]

\* col(n) selects the one name n, cols(ns) the names ns, dtype_cols(ds) the types ds
Selector(o) ==
  IF o.raised # NoError \/ o.engine = <<>> THEN NoSelector
  ELSE LET c == o.engine[1] IN
    IF c.fn = "col" THEN ByName(<<c.arg>>)
    ELSE IF c.fn = "cols" THEN ByName(c.arg.items)
    ELSE ByType(c.arg.items)

AllStr(s) == \A k \in DOMAIN s : isinstance_str(s[k])

AllDType(s) == \A k \in DOMAIN s : is_polars_dtype(s[k])

Called == log # <<>>

\* the elements name yields at the i-th invocation
Yields(i) == list(name, log[i].pre)

IterableCall == entry = "call" /\ more_names = <<>> /\ name \in Iterables

Failed(o) == o.raised.type = "TypeError" /\ o.engine = <<>> /\ o.ret = NoExpr

(* ------------------------------ claims --------------------------------- *)

\* C1: for a non-empty sequence of strings S, col(S[0], *S[1:]) and col(S)
\* both stand for ByName(S), elements in order, duplicates kept, also when S
\* has one element.
C1_NamesEitherWay ==
  \A i \in DOMAIN log :
    /\ (entry = "call" /\ isinstance_str(name) /\ AllStr(more_names)) =>
         LET S == <<name>> \o more_names IN
           /\ Selector(log[i].out) = ByName(S)
           /\ Selector(ColumnFactoryCall(PyList(S), <<>>, <<>>).out) = ByName(S)
    /\ (IterableCall /\ Yields(i) # <<>> /\ AllStr(Yields(i))) =>
         LET S == Yields(i) IN
           /\ Selector(log[i].out) = ByName(S)
           /\ Selector(ColumnFactoryCall(S[1], Tail(S), <<>>).out) = ByName(S)

C1_Witness ==
  /\ Called
  /\ entry = "call"
  /\ name = Str("foo")
  /\ more_names = <<Str("*"), Str("foo")>>
  /\ Selector(log[1].out) = ByName(<<Str("foo"), Str("*"), Str("foo")>>)

\* C2: for a non-empty sequence of data types T, col(T[0], *T[1:]) and col(T)
\* both stand for ByType(T), elements in order, also when T has one element.
C2_TypesEitherWay ==
  \A i \in DOMAIN log :
    /\ (entry = "call" /\ is_polars_dtype(name) /\ AllDType(more_names)) =>
         LET T == <<name>> \o more_names IN
           /\ Selector(log[i].out) = ByType(T)
           /\ Selector(ColumnFactoryCall(PyTuple(T), <<>>, <<>>).out) = ByType(T)
    /\ (IterableCall /\ Yields(i) # <<>> /\ AllDType(Yields(i))) =>
         LET T == Yields(i) IN
           /\ Selector(log[i].out) = ByType(T)
           /\ Selector(ColumnFactoryCall(T[1], Tail(T), <<>>).out) = ByType(T)

C2_Witness ==
  /\ Called
  /\ IterableCall
  /\ name = PyList(<<DType("Float64"), DType("Int64")>>)
  /\ Selector(log[1].out) = ByType(<<DType("Float64"), DType("Int64")>>)

\* C3: with extra arguments, a string name with a non-string extra, or a data
\* type name with a string extra, fails with TypeError and builds no selector.
C3_MixedExtraFails ==
  \A i \in DOMAIN log :
    (/\ entry = "call"
     /\ more_names # <<>>
     /\ \/ isinstance_str(name) /\ ~AllStr(more_names)
        \/ is_polars_dtype(name) /\ \E k \in DOMAIN more_names : isinstance_str(more_names[k]))
    => Failed(log[i].out)

Homogeneous(sel) ==
  /\ sel.variant = "ByName" => AllStr(sel.elems)
  /\ sel.variant = "ByType" => AllDType(sel.elems)

\* C4: every selector a successful call produces is homogeneous: a name
\* selector holds only strings, a type selector only data types.
C4_SelectorsHomogeneous ==
  \A i \in DOMAIN log : Homogeneous(Selector(log[i].out))

\* C5: an empty iterable as name, with no extra arguments, gives the empty
\* name selector through the name constructor and never fails.
C5_EmptyIterable ==
  \A i \in DOMAIN log :
    (IterableCall /\ Yields(i) = <<>>) =>
      /\ log[i].out = Return(plr_cols(<<>>))
      /\ Selector(log[i].out) = ByName(<<>>)

C5_Witness ==
  /\ Called
  /\ IterableCall
  /\ name = PyTuple(<<>>)
  /\ log[1].out.engine = <<plr_cols(<<>>)>>

\* C6: for every string, the wildcard and regex patterns included, col.<name>
\* makes the same engine call with the same argument as col(name).
C6_AttributeEqualsCall ==
  \A i \in DOMAIN log :
    /\ entry = "getattr" =>
         /\ log[i].out = ColumnFactoryCall(name, <<>>, <<>>).out
         /\ log[i].out.engine = <<plr_col(name)>>
    /\ (entry = "call" /\ isinstance_str(name) /\ more_names = <<>>) =>
         log[i].out = ColumnFactoryGetattr(name)

C6_Witness ==
  /\ Called
  /\ entry = "getattr"
  /\ name = Str("*")
  /\ log[1].out.engine = <<plr_col(Str("*"))>>

\* C7: an iterable whose first element is neither a string nor a data type
\* fails with TypeError reporting the class of that first element, whatever
\* follows it.
C7_BadFirstElement ==
  \A i \in DOMAIN log :
    (/\ IterableCall
     /\ Yields(i) # <<>>
     /\ ~isinstance_str(Yields(i)[1])
     /\ ~is_polars_dtype(Yields(i)[1]))
    => /\ Failed(log[i].out)
       /\ log[i].out.raised = TypeError(ExpectedIterable, type_name(Yields(i)[1]))
       /\ log[i].out.raised.got # type_name(name)

C7_Witness ==
  /\ Called
  /\ IterableCall
  /\ name = PyList(<<Int("42"), Str("foo")>>)
  /\ log[1].out.raised.got = "int"

\* C8: with extra arguments, a name that is neither a string nor a data type,
\* an iterable in particular, fails with TypeError reporting the class of
\* name; the iterable is not materialised.
C8_ExtraNeedsScalar ==
  \A i \in DOMAIN log :
    (/\ entry = "call"
     /\ more_names # <<>>
     /\ ~isinstance_str(name)
     /\ ~is_polars_dtype(name))
    => /\ Failed(log[i].out)
       /\ log[i].out.raised = TypeError(ExpectedScalar, type_name(name))
       /\ iter_rest = log[i].pre

C8_Witness ==
  /\ Called
  /\ entry = "call"
  /\ name = ListIterator
  /\ more_names = <<Str("foo")>>
  /\ iter_rest = <<Str("foo"), Str("*")>>
  /\ log[1].out.raised.got = "list_iterator"

\* C9: with no extra arguments, a name that is no string, no data type and no
\* iterable fails with TypeError reporting the class of name.
C9_UnsupportedName ==
  \A i \in DOMAIN log :
    (/\ entry = "call"
     /\ more_names = <<>>
     /\ ~isinstance_str(name)
     /\ ~is_polars_dtype(name)
     /\ ~isinstance_Iterable(name))
    => /\ Failed(log[i].out)
       /\ log[i].out.raised = TypeError(ExpectedScalar, type_name(name))

C9_Witness ==
  /\ Called
  /\ entry = "call"
  /\ name = Int("42")
  /\ more_names = <<>>
  /\ log[1].out.raised.got = "int"

\* exactly one engine constructor called once and its result returned, or a
\* TypeError with no engine call
OneOutcome(o) ==
  \/ /\ Len(o.engine) = 1
     /\ o.engine[1].fn \in {"col", "cols", "dtype_cols"}
     /\ o.ret = wrap_expr(o.engine[1])
     /\ o.raised = NoError
  \/ Failed(o)

\* C10 as stated: every invocation has exactly one of the two outcomes, and
\* invocations on equal arguments have equal outcomes.
C10_SameArgumentsSameOutcome ==
  /\ \A i \in DOMAIN log : OneOutcome(log[i].out)
  /\ \A i, j \in DOMAIN log : log[i].out = log[j].out

\* C10 amended: every invocation has exactly one of the two outcomes, and
\* invocations on equal arguments that yield equal elements have equal
\* outcomes; a one-shot iterator is drained by the invocation that
\* materialises it, and invoked again it gives the empty name selector.
C10_OneOutcomePerCall ==
  /\ \A i \in DOMAIN log : OneOutcome(log[i].out)
  /\ \A i, j \in DOMAIN log : Yields(i) = Yields(j) => log[i].out = log[j].out
  /\ \A i \in DOMAIN log :
       (i > 1 /\ IterableCall /\ name = ListIterator) => log[i].out = Return(plr_cols(<<>>))

C10_Witness ==
  /\ Len(log) = 2
  /\ IterableCall
  /\ name = ListIterator
  /\ log[1].out = Raise(TypeError(ExpectedIterable, "int"))
  /\ log[2].out = Return(plr_cols(<<>>))

====
